---- MODULE Spec2Model ----
(***************************************************************************)
(* Model of the adaptive retrieval pipeline of the MATLAB troubleshooter:  *)
(*   - EvaluationAgent.determine_retrieval_strategy (strategy selector),   *)
(*   - Orchestrator.run         (src/agents/orchestrator.py),              *)
(*   - CombinedRAG.run          (src/Scripts/combined_rag_final.py).       *)
(* Relevance scores are floats in the code and are only compared; they are *)
(* modelled in tenths (0.3 is 3, 0.7 is 7).  Texts produced by the         *)
(* language model are modelled by tokens, metadata by records.             *)
(***************************************************************************)
EXTENDS Integers, Sequences, FiniteSets, TLC

VARIABLES
    pipeline,          \* which entry point runs: "selector", "orchestrator", "combined"
    lower_threshold,   \* EvaluationAgent / CombinedRAG .lower_threshold
    upper_threshold,   \* EvaluationAgent / CombinedRAG .upper_threshold
    selScores,         \* selector: the list of RelevanceScore passed in
    selResult,         \* selector: value returned by the last call
    selCalls,          \* selector: number of calls made on the agent
    pc,                \* position inside run()
    query,             \* the local variable query of run()
    image_bytes,       \* argument of Orchestrator.run
    conversation_history, \* argument of Orchestrator.run
    retrieval_decision, \* answer of the retrieval gate, stripped and lower-cased
    documents,         \* retrieved documents, in retrieval order
    relevance_scores,  \* Orchestrator: eval_result["relevance_scores"]
    strategy,          \* Orchestrator: eval_result["retrieval_strategy"]; CombinedRAG: branch taken
    web_result,        \* result of the web search, or NoValue
    eval_scores,       \* CombinedRAG: eval_scores
    relevant_contexts, \* CombinedRAG: relevant_contexts
    responses,         \* CombinedRAG: responses
    calls,             \* log of the calls made to external services, in order
    result,            \* the value returned by run(), or NoValue
    vectorstore,       \* the similarity index held by the pipeline object: "unset" or "loaded"
    entry_point,       \* who called Orchestrator.run: "run" (direct call) or a wrapper
    delivered,         \* what the wrapper handed to its caller, or NoValue
    earlier            \* strategies of the queries this object served before this one

vars == <<pipeline, lower_threshold, upper_threshold, selScores, selResult,
          selCalls, pc, query, image_bytes, conversation_history,
          retrieval_decision, documents, relevance_scores, strategy, web_result, eval_scores,
          relevant_contexts, responses, calls, result,
          vectorstore, entry_point, delivered, earlier>>

selVars == <<selScores, selResult, selCalls>>
runVars == <<pc, query, image_bytes, conversation_history,
             retrieval_decision, documents, relevance_scores, strategy, web_result, eval_scores,
             relevant_contexts, responses, calls, result,
             vectorstore, entry_point, delivered, earlier>>

----------------------------------------------------------------------------
(* Bounds of the model *)

MaxSelLen == 3     \* longest score list given to the strategy selector
MaxSelCalls == 2   \* calls of the strategy selector on one agent
MaxQueries == 2    \* queries served by one Orchestrator object
NumIndexed == 3    \* passages held by the similarity index

(* Program constants *)

top_k == 3             \* RetrievalAgent.top_k, CombinedRAG top_k default
PreviewLength == 200   \* Document.preview max_length, CombinedRAG context[:200]

(* Values the external services may answer with *)

NoValue == [t |-> "none"]

\* answers of the numeric relevance chain, in tenths; the chain's output model
\* declares a plain float, so an answer above 1 (12 = 1.2) is accepted
ScoreValues == {2, 3, 5, 7, 9, 12}
ThresholdPairs == {<<3, 7>>, <<5, 9>>}
GateAnswers == {"Yes", "No", " yes ", "Maybe"}
BinaryAnswers == {"Relevant", "Irrelevant", " relevant"}
SupportAnswers == {"Fully supported", "Partially supported", "No support"}
UtilityValues == {1, 2, 5}

\* str.strip().lower() on the answers above
StripLower(s) ==
    CASE s = "Yes" -> "yes"
      [] s = " yes " -> "yes"
      [] s = "No" -> "no"
      [] s = "Maybe" -> "maybe"
      [] s = "Relevant" -> "relevant"
      [] s = " relevant" -> "relevant"
      [] s = "Irrelevant" -> "irrelevant"
      [] s = "Fully supported" -> "fully supported"
      [] s = "Partially supported" -> "partially supported"
      [] s = "No support" -> "no support"
      [] OTHER -> s

----------------------------------------------------------------------------
(* models.py *)

RelevanceScore(score, is_relevant) == [score |-> score, is_relevant |-> is_relevant]

\* dict.get(key, default)
Get(metadata, key, default) ==
    IF key \in DOMAIN metadata THEN metadata[key] ELSE default

----------------------------------------------------------------------------
(* EvaluationAgent.determine_retrieval_strategy *)

\* max(score.score for score in scores): a left-to-right scan keeping the
\* first greatest value
RECURSIVE MaxFrom(_, _, _)
MaxFrom(scores, i, best) ==
    IF i > Len(scores) THEN best
    ELSE MaxFrom(scores, i + 1,
                 IF scores[i].score > best THEN scores[i].score ELSE best)

MaxScore(scores) == MaxFrom(scores, 2, scores[1].score)

\* variant for C2: reads the first score instead of the maximum
FirstScoreStrategy(scores, lower, upper) ==
    IF scores = <<>> THEN "web_only"
    ELSE IF scores[1].score < lower THEN "web_only"
    ELSE IF scores[1].score >= upper THEN "kb_only"
    ELSE "hybrid"

\* variant for C1: a maximum equal to the lower threshold counts as too low
InclusiveLowerStrategy(scores, lower, upper) ==
    IF scores = <<>> THEN "web_only"
    ELSE IF MaxScore(scores) <= lower THEN "web_only"
    ELSE IF MaxScore(scores) >= upper THEN "kb_only"
    ELSE "hybrid"

determine_retrieval_strategy(scores, lower, upper) ==
    IF scores = <<>> THEN "web_only"
    ELSE IF MaxScore(scores) < lower THEN "web_only"
    ELSE IF MaxScore(scores) >= upper THEN "kb_only"
    ELSE "hybrid"

----------------------------------------------------------------------------
(* The strategy selector called directly on one EvaluationAgent *)

SelScoreLists ==
    UNION { [1..n -> {RelevanceScore(s, FALSE) : s \in ScoreValues}] : n \in 0..MaxSelLen }

IdleRun ==
    /\ pc = "idle"
    /\ query = "q"
    /\ image_bytes = "none"
    /\ conversation_history = NoValue
    /\ retrieval_decision = "unset"
    /\ documents = <<>>
    /\ relevance_scores = <<>>
    /\ strategy = "unset"
    /\ web_result = NoValue
    /\ eval_scores = <<>>
    /\ relevant_contexts = <<>>
    /\ responses = <<>>
    /\ calls = <<>>
    /\ result = NoValue
    /\ vectorstore = "unset"
    /\ entry_point = "run"
    /\ delivered = NoValue
    /\ earlier = <<>>

InitSelector ==
    /\ pipeline = "selector"
    /\ \E th \in ThresholdPairs : lower_threshold = th[1] /\ upper_threshold = th[2]
    /\ selScores \in SelScoreLists
    /\ selResult = "unset"
    /\ selCalls = 0
    /\ IdleRun

\* a call of determine_retrieval_strategy on the agent
SelCall ==
    /\ pipeline = "selector"
    /\ selCalls < MaxSelCalls
    /\ selResult' = determine_retrieval_strategy(selScores, lower_threshold, upper_threshold)
    /\ selCalls' = selCalls + 1
    /\ UNCHANGED <<pipeline, lower_threshold, upper_threshold, selScores, runVars>>

\* the caller reorders the list between calls
SelSwap ==
    /\ pipeline = "selector"
    /\ \E i \in 1..(Len(selScores) - 1) :
          selScores' = [selScores EXCEPT ![i] = selScores[i + 1], ![i + 1] = selScores[i]]
    /\ selScores' # selScores
    /\ UNCHANGED <<pipeline, lower_threshold, upper_threshold, selResult, selCalls, runVars>>

\* the caller changes the binary judgment of one entry between calls
SelFlip ==
    /\ pipeline = "selector"
    /\ \E i \in 1..Len(selScores) :
          selScores' = [selScores EXCEPT ![i].is_relevant = ~selScores[i].is_relevant]
    /\ UNCHANGED <<pipeline, lower_threshold, upper_threshold, selResult, selCalls, runVars>>

NextSelector == SelCall \/ SelSwap \/ SelFlip

SpecSelector == InitSelector /\ [][NextSelector]_vars

----------------------------------------------------------------------------
(* Values of Python variables that may hold None, a str or a list *)

PyStr(s) == [t |-> "str", v |-> s]
PyList(l) == [t |-> "list", v |-> l]

\* truth value of an Optional[List]: None and [] are false
Truthy(x) == x.t = "list" /\ x.v # <<>>

\* a == "literal" where a may be any Python value
IsStr(x, s) == x.t = "str" /\ x.v = s

ImageInputs == {"none", "empty", "png"}     \* None, b"" and real image bytes
HistoryInputs == {NoValue, PyList(<<>>), PyList(<<"turn">>)}

Min(a, b) == IF a < b THEN a ELSE b

\* an entry of the call log
Call(op, arg) == [op |-> op, arg |-> arg]

----------------------------------------------------------------------------
(* The similarity index: passage i of the index, with its metadata *)

ContentLength(i) == IF i % 2 = 0 THEN 350 ELSE 120

Metadata(i) ==
    CASE i % 3 = 1 -> [url |-> "url" \o ToString(i),
                       source_url |-> "source" \o ToString(i),
                       parent_url |-> "parent" \o ToString(i)]
      [] i % 3 = 2 -> [url |-> "url" \o ToString(i), source_url |-> ""]
      [] OTHER -> [parent_url |-> "parent" \o ToString(i),
                   source_url |-> "source" \o ToString(i)]

Document(i) == [content |-> [id |-> i, length |-> ContentLength(i)],
                metadata |-> Metadata(i)]

\* Document.preview: content[:max_length] + "..." when longer than max_length
preview(doc) ==
    IF doc.content.length > PreviewLength
    THEN [id |-> doc.content.id, length |-> PreviewLength, ellipsis |-> TRUE]
    ELSE [id |-> doc.content.id, length |-> doc.content.length, ellipsis |-> FALSE]

\* vectorstore.similarity_search(query, k): at most k passages, best first
SearchResults(k) ==
    { [j \in 1..n |-> Document(j)] : n \in 0..Min(k, NumIndexed) }

----------------------------------------------------------------------------
(* sorted(pairs, key=score, reverse=True): stable, equal keys keep their order *)

RECURSIVE InsertDescending(_, _, _)
InsertDescending(sorted, x, i) ==
    IF i > Len(sorted) THEN Append(sorted, x)
    ELSE IF sorted[i].score < x.score
         THEN SubSeq(sorted, 1, i - 1) \o <<x>> \o SubSeq(sorted, i, Len(sorted))
         ELSE InsertDescending(sorted, x, i + 1)

RECURSIVE SortFrom(_, _, _)
SortFrom(seq, i, acc) ==
    IF i > Len(seq) THEN acc
    ELSE SortFrom(seq, i + 1, InsertDescending(acc, seq[i], 1))

SortedDescending(seq) == SortFrom(seq, 1, <<>>)

\* zip(documents, scores)
Zip(docs, scores) ==
    [i \in 1..Min(Len(docs), Len(scores)) |-> [doc |-> docs[i], score |-> scores[i]]]

RECURSIVE FilterSeq(_, _, _, _)
FilterSeq(seq, Keep(_), i, acc) ==
    IF i > Len(seq) THEN acc
    ELSE FilterSeq(seq, Keep, i + 1, IF Keep(seq[i]) THEN Append(acc, seq[i]) ELSE acc)

----------------------------------------------------------------------------
(* WebSearchAgent *)

\* raw output of the search tool: text that json.loads accepts as a list of
\* dicts, or text that makes it raise JSONDecodeError
WebRawResults ==
    { [json |-> FALSE, results |-> <<>>],
      [json |-> TRUE, results |-> <<>>],
      [json |-> TRUE, results |-> << [title |-> "MathWorks", link |-> "https://a"],
                                     [title |-> "Forum", link |-> ""],
                                     [link |-> "https://b"],
                                     [title |-> "Blog"] >>] }

\* answers of the knowledge refinement chain, as the lines of key_points
KeyPointAnswers == { <<>>, <<"- a">>, <<" - b ", "  ", "- a">> }

StripLine(s) ==
    CASE s = " - b " -> "- b"
      [] s = "  " -> ""
      [] OTHER -> s

ReferenceLink(title, url) == [title |-> title, url |-> url]

\* WebSearchAgent.extract_knowledge followed by "\n".join
extract_knowledge(lines) ==
    LET stripped == [i \in 1..Len(lines) |-> StripLine(lines[i])]
        NonEmpty(l) == l # ""
    IN FilterSeq(stripped, NonEmpty, 1, <<>>)

\* WebSearchAgent.extract_sources
extract_sources(raw) ==
    IF ~raw.json THEN <<>>
    ELSE LET links == [i \in 1..Len(raw.results) |->
                          ReferenceLink(Get(raw.results[i], "title", "Untitled"),
                                        Get(raw.results[i], "link", ""))]
             HasLink(l) == l.url # ""
         IN FilterSeq(links, HasLink, 1, <<>>)

WebSearchResult(knowledge, sources) == [knowledge |-> knowledge, sources |-> sources]

----------------------------------------------------------------------------
(* GenerationAgent *)

\* the dict handed to generation_chain.invoke
InputData(q, context, history) ==
    IF Truthy(history)
    THEN [query |-> q, context |-> context, history |-> history.v]
    ELSE [query |-> q, context |-> context]

\* variant for C7: only the highest-scoring document enters the context
KbContextTopOnly(docs, scores) ==
    LET sorted_pairs == SubSeq(SortedDescending(Zip(docs, scores)), 1, 1)
        HasUrl(pair) == Get(pair.doc.metadata, "source_url", "") # ""
        with_url == FilterSeq(sorted_pairs, HasUrl, 1, <<>>)
    IN [context |-> [i \in 1..Len(sorted_pairs) |->
                        [relevance |-> sorted_pairs[i].score,
                         content |-> sorted_pairs[i].doc.content]],
        sources |-> [i \in 1..Len(with_url) |->
                        ReferenceLink("Document (score: " \o ToString(with_url[i].score) \o ")",
                                      Get(with_url[i].doc.metadata, "source_url", ""))]]

\* variant for C24: the sources are listed in retrieval order, not score order
KbSourcesInRetrievalOrder(docs, scores) ==
    LET sorted_pairs == SortedDescending(Zip(docs, scores))
        HasUrl(pair) == Get(pair.doc.metadata, "source_url", "") # ""
        with_url == FilterSeq(Zip(docs, scores), HasUrl, 1, <<>>)
    IN [context |-> [i \in 1..Len(sorted_pairs) |->
                        [relevance |-> sorted_pairs[i].score,
                         content |-> sorted_pairs[i].doc.content]],
        sources |-> [i \in 1..Len(with_url) |->
                        ReferenceLink("Document (score: " \o ToString(with_url[i].score) \o ")",
                                      Get(with_url[i].doc.metadata, "source_url", ""))]]

\* GenerationAgent._prepare_kb_context
prepare_kb_context(docs, scores) ==
    LET sorted_pairs == SortedDescending(Zip(docs, scores))
        HasUrl(pair) == Get(pair.doc.metadata, "source_url", "") # ""
        with_url == FilterSeq(sorted_pairs, HasUrl, 1, <<>>)
    IN [context |-> [i \in 1..Len(sorted_pairs) |->
                        [relevance |-> sorted_pairs[i].score,
                         content |-> sorted_pairs[i].doc.content]],
        sources |-> [i \in 1..Len(with_url) |->
                        ReferenceLink("Document (score: " \o ToString(with_url[i].score) \o ")",
                                      Get(with_url[i].doc.metadata, "source_url", ""))]]

generate_from_kb(q, docs, scores, history) ==
    LET context_data == prepare_kb_context(docs, scores)
    IN [input_data |-> InputData(q, [kind |-> "kb", kb |-> context_data.context], history),
        response |-> "answer",
        sources |-> context_data.sources]

generate_from_web(q, web, history) ==
    [input_data |-> InputData(q, [kind |-> "web", knowledge |-> web.knowledge,
                                  sources |-> web.sources], history),
     response |-> "answer",
     sources |-> web.sources]

\* variant for C23: the web sources are listed before the knowledge-base ones
HybridWebSourcesFirst(q, docs, scores, web, history) ==
    LET kb_context == prepare_kb_context(docs, scores)
    IN [input_data |-> InputData(q, [kind |-> "hybrid", kb |-> kb_context.context,
                                     knowledge |-> web.knowledge], history),
        response |-> "answer",
        sources |-> web.sources \o kb_context.sources]

\* GenerationAgent.generate_hybrid
generate_hybrid(q, docs, scores, web, history) ==
    LET kb_context == prepare_kb_context(docs, scores)
    IN [input_data |-> InputData(q, [kind |-> "hybrid", kb |-> kb_context.context,
                                     knowledge |-> web.knowledge], history),
        response |-> "answer",
        sources |-> kb_context.sources \o web.sources]

generate_without_context(q, history) ==
    [input_data |-> InputData(q, [kind |-> "none"], history),
     response |-> "answer",
     sources |-> <<>>]

\* GenerationAgent.run(query, strategy, documents, scores, web_result,
\* conversation_history), its parameters in declaration order
GenerationAgentRun(q, strat, docs, scores, web, history) ==
    IF IsStr(strat, "kb_only") THEN generate_from_kb(q, docs, scores, history)
    ELSE IF IsStr(strat, "web_only") THEN generate_from_web(q, web, history)
    ELSE IF IsStr(strat, "hybrid") THEN generate_hybrid(q, docs, scores, web, history)
    ELSE generate_without_context(q, history)

QueryResult(final_response, reference_links, relevant_docs) ==
    [final_response |-> final_response,
     reference_links |-> reference_links,
     relevant_docs |-> relevant_docs]

----------------------------------------------------------------------------
(* Orchestrator.run, one action per stage *)

IdleSelector ==
    /\ selScores = <<>>
    /\ selResult = "unset"
    /\ selCalls = 0

InitOrchestrator ==
    /\ pipeline = "orchestrator"
    /\ \E th \in ThresholdPairs : lower_threshold = th[1] /\ upper_threshold = th[2]
    /\ IdleSelector
    /\ pc = "construct"
    /\ query = "q"
    /\ image_bytes \in ImageInputs
    /\ conversation_history \in HistoryInputs
    /\ retrieval_decision = "unset"
    /\ documents = <<>>
    /\ relevance_scores = <<>>
    /\ strategy = "unset"
    /\ web_result = NoValue
    /\ eval_scores = <<>>
    /\ relevant_contexts = <<>>
    /\ responses = <<>>
    /\ calls = <<>>
    /\ result = NoValue
    /\ vectorstore = "unset"
    /\ entry_point = "run"
    /\ delivered = NoValue
    /\ earlier = <<>>

request == <<pipeline, lower_threshold, upper_threshold, selVars, image_bytes,
             conversation_history, entry_point>>
config == <<request, vectorstore, delivered, earlier>>
cragVars == <<eval_scores, relevant_contexts, responses>>

\* variant for C17: a load error is swallowed and the object is built anyway
ConstructIgnoresLoadError ==
    /\ pipeline = "orchestrator" /\ pc = "construct"
    /\ \E loads \in BOOLEAN :
         /\ vectorstore' = IF loads THEN "loaded" ELSE "unset"
         /\ pc' = "start"
    /\ calls' = Append(calls, Call("load_index", "faiss_index_path"))
    /\ UNCHANGED <<request, delivered, earlier, query, retrieval_decision, documents,
                   relevance_scores, strategy, web_result, cragVars, result>>

\* Orchestrator.__init__ -> RetrievalAgent.__init__ lines 35-44: the index is
\* loaded once; a load error is re-raised as ValueError and no object is built
OrchConstruct ==
    /\ pipeline = "orchestrator" /\ pc = "construct"
    /\ \E loads \in BOOLEAN :
         /\ vectorstore' = IF loads THEN "loaded" ELSE "unset"
         /\ pc' = IF loads THEN "start" ELSE "construct_failed"
    /\ calls' = Append(calls, Call("load_index", "faiss_index_path"))
    /\ UNCHANGED <<request, delivered, earlier, query, retrieval_decision, documents,
                   relevance_scores, strategy, web_result, cragVars, result>>

\* variant for C20: the image is analysed but the original query is kept
ProcessImageKeepsQuery ==
    /\ pipeline = "orchestrator" /\ pc = "start"
    /\ IF image_bytes = "png"
       THEN calls' = Append(calls, Call("image", query))
       ELSE UNCHANGED calls
    /\ pc' = "retrieve"
    /\ UNCHANGED <<config, query, retrieval_decision, documents, relevance_scores, strategy, web_result, cragVars, result>>

\* lines 74-78: if image_bytes: query = self.process_image(query, image_bytes)
OrchProcessImage ==
    /\ pipeline = "orchestrator" /\ pc = "start"
    /\ IF image_bytes = "png"
       THEN /\ calls' = Append(calls, Call("image", query))
            /\ query' = "image analysis"
       ELSE UNCHANGED <<calls, query>>
    /\ pc' = "retrieve"
    /\ UNCHANGED <<config, retrieval_decision, documents, relevance_scores, strategy, web_result, cragVars, result>>

\* variant for C3: the index is searched before the gate is consulted
RetrievalSearchesFirst ==
    /\ pipeline = "orchestrator" /\ pc = "retrieve"
    /\ \E answer \in GateAnswers, docs \in SearchResults(top_k) :
         /\ retrieval_decision' = StripLower(answer)
         /\ documents' = docs
         /\ calls' = calls \o <<Call("search", query), Call("gate", query)>>
         /\ pc' = IF retrieval_decision' = "yes" THEN "evaluate" ELSE "direct"
    /\ UNCHANGED <<config, query, relevance_scores, strategy, web_result, cragVars, result>>

\* line 81: RetrievalAgent.run (should_retrieve, then retrieve_documents)
RetrievalAgentRun ==
    /\ pipeline = "orchestrator" /\ pc = "retrieve"
    /\ \E answer \in GateAnswers :
         /\ retrieval_decision' = StripLower(answer)
         /\ IF retrieval_decision' = "yes"
            THEN \E docs \in SearchResults(top_k) :
                    /\ documents' = docs
                    /\ calls' = calls \o <<Call("gate", query), Call("search", query)>>
                    /\ pc' = "evaluate"
            ELSE /\ documents' = <<>>
                 /\ calls' = Append(calls, Call("gate", query))
                 /\ pc' = "direct"
    /\ UNCHANGED <<config, query, relevance_scores, strategy, web_result, cragVars, result>>

\* lines 84-92: generation_agent.run(query, conversation_history, "none")
OrchGenerateDirect ==
    /\ pipeline = "orchestrator" /\ pc = "direct"
    /\ LET generation_result ==
               GenerationAgentRun(query, conversation_history, PyStr("none"),
                                  NoValue, NoValue, NoValue)
       IN /\ calls' = Append(calls, Call("generate", generation_result.input_data))
          /\ result' = QueryResult(generation_result.response,
                                   generation_result.sources, <<>>)
    /\ pc' = "returned"
    /\ UNCHANGED <<config, query, retrieval_decision, documents, relevance_scores, strategy, web_result, cragVars>>

\* variant for C19: the numeric score is requested only for a document the
\* binary judgment found relevant
EvaluateShortCircuit ==
    /\ pipeline = "orchestrator" /\ pc = "evaluate"
    /\ Len(relevance_scores) < Len(documents)
    /\ \E binary \in BinaryAnswers, numerical_score \in ScoreValues :
         LET doc == documents[Len(relevance_scores) + 1]
             is_relevant == StripLower(binary) = "relevant"
             arg == [query |-> query, doc |-> doc.content.id]
         IN IF is_relevant
            THEN /\ relevance_scores' = Append(relevance_scores,
                                               RelevanceScore(numerical_score, TRUE))
                 /\ calls' = calls \o <<Call("binary", arg), Call("score", arg)>>
            ELSE /\ relevance_scores' = Append(relevance_scores, RelevanceScore(2, FALSE))
                 /\ calls' = Append(calls, Call("binary", arg))
    /\ UNCHANGED <<config, pc, query, retrieval_decision, documents, strategy, web_result, cragVars, result>>

\* EvaluationAgent.evaluate_relevance: one iteration of the loop over documents
EvaluateRelevance ==
    /\ pipeline = "orchestrator" /\ pc = "evaluate"
    /\ Len(relevance_scores) < Len(documents)
    /\ \E binary \in BinaryAnswers, numerical_score \in ScoreValues :
         LET doc == documents[Len(relevance_scores) + 1]
             is_relevant == StripLower(binary) = "relevant"
         IN /\ relevance_scores' = Append(relevance_scores,
                                          RelevanceScore(numerical_score, is_relevant))
            /\ calls' = calls \o <<Call("binary", [query |-> query, doc |-> doc.content.id]),
                                   Call("score", [query |-> query, doc |-> doc.content.id])>>
    /\ UNCHANGED <<config, pc, query, retrieval_decision, documents, strategy, web_result, cragVars, result>>

\* EvaluationAgent.run after the loop: determine_retrieval_strategy
DetermineStrategy ==
    /\ pipeline = "orchestrator" /\ pc = "evaluate"
    /\ Len(relevance_scores) = Len(documents)
    /\ strategy' = determine_retrieval_strategy(relevance_scores, lower_threshold, upper_threshold)
    /\ pc' = IF strategy' \in {"web_only", "hybrid"} THEN "web" ELSE "generate"
    /\ UNCHANGED <<config, query, retrieval_decision, documents, relevance_scores, web_result, cragVars, calls, result>>

\* variant for C21: the web search is run a second time after the first
WebSearchTwice ==
    /\ pipeline = "orchestrator" /\ pc = "web"
    /\ \E raw \in WebRawResults, key_points \in KeyPointAnswers :
         /\ web_result' = WebSearchResult(extract_knowledge(key_points), extract_sources(raw))
         /\ calls' = calls \o <<Call("rewrite", query), Call("websearch", query),
                                Call("refine", raw),
                                Call("rewrite", query), Call("websearch", query),
                                Call("refine", raw)>>
    /\ pc' = "generate"
    /\ UNCHANGED <<config, query, retrieval_decision, documents, relevance_scores, strategy, cragVars, result>>

\* variant for C18: the web is searched as soon as the documents are
\* evaluated, before the strategy is chosen
EagerWebSearch ==
    /\ pipeline = "orchestrator" /\ pc = "evaluate"
    /\ Len(relevance_scores) = Len(documents)
    /\ \A i \in 1..Len(calls) : calls[i].op # "rewrite"
    /\ \E raw \in WebRawResults, key_points \in KeyPointAnswers :
         /\ web_result' = WebSearchResult(extract_knowledge(key_points), extract_sources(raw))
         /\ calls' = calls \o <<Call("rewrite", query), Call("websearch", query),
                                Call("refine", raw)>>
    /\ pc' = "evaluate"
    /\ UNCHANGED <<config, query, retrieval_decision, documents, relevance_scores, strategy, cragVars, result>>

\* lines 101-103: WebSearchAgent.run
WebSearchAgentRun ==
    /\ pipeline = "orchestrator" /\ pc = "web"
    /\ \E raw \in WebRawResults, key_points \in KeyPointAnswers :
         /\ web_result' = WebSearchResult(extract_knowledge(key_points), extract_sources(raw))
         /\ calls' = calls \o <<Call("rewrite", query), Call("websearch", query),
                                Call("refine", raw)>>
    /\ pc' = "generate"
    /\ UNCHANGED <<config, query, retrieval_decision, documents, relevance_scores, strategy, cragVars, result>>

RelevantDocument(doc, score) ==
    [content_preview |-> preview(doc), score |-> score,
     url |-> Get(doc.metadata, "url", "No URL available")]

\* variant for C5: a score equal to the lower threshold is not reported
StrictlyAboveDocs(docs, scores, lower) ==
    LET pairs == Zip(docs, scores)
        Decent(pair) == pair.score > lower
        kept == FilterSeq(pairs, Decent, 1, <<>>)
    IN [i \in 1..Len(kept) |-> RelevantDocument(kept[i].doc, kept[i].score)]

\* variant for C29: the scores are paired with the documents in reverse order
ReversedScoresDocs(docs, scores, lower) ==
    LET reversed == [i \in 1..Len(scores) |-> scores[Len(scores) + 1 - i]]
        pairs == Zip(docs, reversed)
        Decent(pair) == pair.score >= lower
        kept == FilterSeq(pairs, Decent, 1, <<>>)
    IN [i \in 1..Len(kept) |-> RelevantDocument(kept[i].doc, kept[i].score)]

\* lines 122-129: the documents whose score reaches the lower threshold
UnsortedRelevantDocs(docs, scores, lower) ==
    LET pairs == Zip(docs, scores)
        Decent(pair) == pair.score >= lower
        kept == FilterSeq(pairs, Decent, 1, <<>>)
    IN [i \in 1..Len(kept) |-> RelevantDocument(kept[i].doc, kept[i].score)]

\* variant for C4: the final sort is left out
RelevantDocsUnsorted(docs, scores, lower) ==
    UnsortedRelevantDocs(docs, scores, lower)

\* lines 121-132: the relevant documents of the result
OrchRelevantDocs(docs, scores, lower) ==
    SortedDescending(UnsortedRelevantDocs(docs, scores, lower))

\* variant for C30: a first generation call is thrown away and repeated
GenerateWithRetry ==
    /\ pipeline = "orchestrator" /\ pc = "generate"
    /\ LET scores == [i \in 1..Len(relevance_scores) |-> relevance_scores[i].score]
           uses_kb == strategy \in {"kb_only", "hybrid"}
           uses_web == strategy \in {"web_only", "hybrid"}
           generation_result ==
               GenerationAgentRun(query, PyStr(strategy),
                                  IF uses_kb THEN documents ELSE NoValue,
                                  IF uses_kb THEN scores ELSE NoValue,
                                  IF uses_web THEN web_result ELSE NoValue,
                                  conversation_history)
       IN /\ calls' = calls \o <<Call("generate", generation_result.input_data),
                                  Call("generate", generation_result.input_data)>>
          /\ result' = QueryResult(generation_result.response,
                                   generation_result.sources,
                                   OrchRelevantDocs(documents, scores, lower_threshold))
    /\ pc' = "returned"
    /\ UNCHANGED <<config, query, retrieval_decision, documents, relevance_scores, strategy, web_result, cragVars>>

\* lines 105-139: generation, result assembly and return
OrchGenerate ==
    /\ pipeline = "orchestrator" /\ pc = "generate"
    /\ LET scores == [i \in 1..Len(relevance_scores) |-> relevance_scores[i].score]
           uses_kb == strategy \in {"kb_only", "hybrid"}
           uses_web == strategy \in {"web_only", "hybrid"}
           generation_result ==
               GenerationAgentRun(query, PyStr(strategy),
                                  IF uses_kb THEN documents ELSE NoValue,
                                  IF uses_kb THEN scores ELSE NoValue,
                                  IF uses_web THEN web_result ELSE NoValue,
                                  conversation_history)
       IN /\ calls' = Append(calls, Call("generate", generation_result.input_data))
          /\ result' = QueryResult(generation_result.response,
                                   generation_result.sources,
                                   OrchRelevantDocs(documents, scores, lower_threshold))
    /\ pc' = "returned"
    /\ UNCHANGED <<config, query, retrieval_decision, documents, relevance_scores, strategy, web_result, cragVars>>

\* an external service call of the current stage raises; run() has no handler
OrchServiceRaises ==
    /\ pipeline = "orchestrator"
    /\ \/ pc = "start" /\ image_bytes = "png"
       \/ pc \in {"retrieve", "direct", "web", "generate"}
       \/ pc = "evaluate" /\ Len(relevance_scores) < Len(documents)
    /\ calls' = Append(calls, Call("raise", pc))
    /\ pc' = "raised"
    /\ UNCHANGED <<config, query, retrieval_decision, documents, relevance_scores, strategy, web_result, cragVars, result>>

NextOrchestrator ==
    \/ OrchConstruct
    \/ OrchProcessImage
    \/ RetrievalAgentRun
    \/ OrchGenerateDirect
    \/ EvaluateRelevance
    \/ DetermineStrategy
    \/ WebSearchAgentRun
    \/ OrchGenerate
    \/ OrchServiceRaises

SpecOrchestrator == InitOrchestrator /\ [][NextOrchestrator]_vars

\* Orchestrator.run when every external call returns: run() is sequential
\* code on one thread, so the next statement is executed once the call before
\* it has returned
NextAnswered ==
    \/ OrchConstruct
    \/ OrchProcessImage
    \/ RetrievalAgentRun
    \/ OrchGenerateDirect
    \/ EvaluateRelevance
    \/ DetermineStrategy
    \/ WebSearchAgentRun
    \/ OrchGenerate

\* a request with an image and no history, default thresholds
InitAnswered ==
    /\ InitOrchestrator
    /\ lower_threshold = 3 /\ upper_threshold = 7
    /\ image_bytes = "png"
    /\ conversation_history = NoValue

\* the stages before the final generation
StagesBeforeGeneration ==
    \/ OrchConstruct
    \/ OrchProcessImage
    \/ RetrievalAgentRun
    \/ EvaluateRelevance
    \/ DetermineStrategy
    \/ WebSearchAgentRun

\* OrchGenerate and OrchGenerateDirect are enabled exactly in these states
GenerateReady == pipeline = "orchestrator" /\ pc \in {"generate", "direct"}

\* WF_vars(OrchGenerate \/ OrchGenerateDirect), with the enabling condition of
\* the two actions written out as the state predicate GenerateReady
FairGenerate ==
    []<>(~GenerateReady) \/ []<><<OrchGenerate \/ OrchGenerateDirect>>_vars

SpecAnswered ==
    InitAnswered /\ [][NextAnswered]_vars /\ WF_vars(StagesBeforeGeneration) /\ FairGenerate

----------------------------------------------------------------------------
(* CombinedRAG.run, one action per stage *)

InitCombined ==
    /\ pipeline = "combined"
    /\ \E th \in ThresholdPairs : lower_threshold = th[1] /\ upper_threshold = th[2]
    /\ IdleSelector
    /\ pc = "construct"
    /\ query = "q"
    /\ image_bytes = "none"
    /\ conversation_history = NoValue
    /\ retrieval_decision = "unset"
    /\ documents = <<>>
    /\ relevance_scores = <<>>
    /\ strategy = "unset"
    /\ web_result = NoValue
    /\ eval_scores = <<>>
    /\ relevant_contexts = <<>>
    /\ responses = <<>>
    /\ calls = <<>>
    /\ result = QueryResult("", <<>>, <<>>)
    /\ vectorstore = "unset"
    /\ entry_point = "run"
    /\ delivered = NoValue
    /\ earlier = <<>>

orchVars == <<relevance_scores, web_result>>

\* CombinedRAG.__init__ lines 196-203: the index is loaded once; a load error is
\* re-raised as ValueError and no object is built
CragConstruct ==
    /\ pipeline = "combined" /\ pc = "construct"
    /\ \E loads \in BOOLEAN :
         /\ vectorstore' = IF loads THEN "loaded" ELSE "unset"
         /\ pc' = IF loads THEN "start" ELSE "construct_failed"
    /\ calls' = Append(calls, Call("load_index", "path"))
    /\ UNCHANGED <<request, delivered, earlier, query, retrieval_decision, documents, strategy,
                   orchVars, cragVars, result>>

\* lines 296-309: the retrieval decision, then similarity_search
CragRetrieve ==
    /\ pipeline = "combined" /\ pc = "start"
    /\ \E answer \in GateAnswers :
         /\ retrieval_decision' = StripLower(answer)
         /\ IF retrieval_decision' = "yes"
            THEN \E docs \in SearchResults(top_k) :
                    /\ documents' = docs
                    /\ calls' = calls \o <<Call("gate", query), Call("search", query)>>
                    /\ pc' = "evaluate"
            ELSE /\ documents' = <<>>
                 /\ calls' = Append(calls, Call("gate", query))
                 /\ pc' = "direct"
    /\ UNCHANGED <<config, query, strategy, orchVars, cragVars, result>>

\* lines 324-328: doc_info
DocInfo(doc, score) ==
    [content_preview |-> preview(doc), score |-> score,
     url |-> Get(doc.metadata, "parent_url", "No URL available")]

\* lines 316-337: one iteration of the scoring loop
CragEvaluate ==
    /\ pipeline = "combined" /\ pc = "evaluate"
    /\ Len(eval_scores) < Len(documents)
    /\ \E score \in ScoreValues, relevance \in BinaryAnswers :
         LET doc == documents[Len(eval_scores) + 1]
         IN /\ eval_scores' = Append(eval_scores, score)
            /\ result' = IF score >= lower_threshold
                         THEN [result EXCEPT !.relevant_docs = Append(@, DocInfo(doc, score))]
                         ELSE result
            /\ relevant_contexts' =
                   IF StripLower(relevance) = "relevant"
                   THEN Append(relevant_contexts,
                               [context |-> doc.content, metadata |-> doc.metadata, score |-> score])
                   ELSE relevant_contexts
            /\ calls' = calls \o <<Call("score", doc.content.id), Call("binary", doc.content.id)>>
    /\ UNCHANGED <<config, pc, query, retrieval_decision, documents, strategy, orchVars, responses>>

\* max(eval_scores): left-to-right scan
RECURSIVE MaxOfFrom(_, _, _)
MaxOfFrom(seq, i, best) ==
    IF i > Len(seq) THEN best
    ELSE MaxOfFrom(seq, i + 1, IF seq[i] > best THEN seq[i] ELSE best)

\* line 340: max(eval_scores) if eval_scores else 0
CragMaxScore(scores) == IF scores = <<>> THEN 0 ELSE MaxOfFrom(scores, 2, scores[1])

\* variant for C8: the branch ignores the binary judgments
ScoreOnlyBranch(contexts, scores, lower, upper) ==
    IF CragMaxScore(scores) < lower THEN "web_only"
    ELSE IF lower <= CragMaxScore(scores) /\ CragMaxScore(scores) < upper THEN "hybrid"
    ELSE "kb_only"

\* variant for C28: the web branch is taken when nothing was retrieved, not
\* when nothing was judged relevant
AnyDocumentBranch(contexts, scores, lower, upper) ==
    IF scores = <<>> \/ CragMaxScore(scores) < lower THEN "web_only"
    ELSE IF lower <= CragMaxScore(scores) /\ CragMaxScore(scores) < upper THEN "hybrid"
    ELSE "kb_only"

\* lines 343, 363, 395: the branch taken after scoring
CragBranch(contexts, scores, lower, upper) ==
    IF contexts = <<>> \/ CragMaxScore(scores) < lower THEN "web_only"
    ELSE IF lower <= CragMaxScore(scores) /\ CragMaxScore(scores) < upper THEN "hybrid"
    ELSE "kb_only"

CragChoose ==
    /\ pipeline = "combined" /\ pc = "evaluate"
    /\ Len(eval_scores) = Len(documents)
    /\ strategy' = CragBranch(relevant_contexts, eval_scores, lower_threshold, upper_threshold)
    /\ pc' = strategy'
    /\ UNCHANGED <<config, query, retrieval_decision, documents, orchVars, cragVars, calls, result>>

\* lines 266-272: sources of perform_web_search, links may be empty
CragWebSources(raw) ==
    IF ~raw.json THEN <<>>
    ELSE [i \in 1..Len(raw.results) |->
             ReferenceLink(Get(raw.results[i], "title", "Untitled"),
                           Get(raw.results[i], "link", ""))]

\* lines 348-350 and 379-381: only sources with a link become reference links
CragWebLinks(sources) ==
    LET HasLink(l) == l.url # ""
    IN FilterSeq(sources, HasLink, 1, <<>>)

WebCalls == <<Call("rewrite", query), Call("websearch", query), Call("refine", "web")>>

\* lines 344-360: answer from web knowledge
CragWebOnly ==
    /\ pipeline = "combined" /\ pc = "web_only"
    /\ \E raw \in WebRawResults, key_points \in KeyPointAnswers :
         LET web_knowledge == extract_knowledge(key_points)
             web_sources == CragWebSources(raw)
             input_data == [query |-> query,
                            context |-> [kind |-> "web", knowledge |-> web_knowledge,
                                         sources |-> web_sources]]
         IN /\ calls' = calls \o WebCalls \o <<Call("generate", input_data)>>
            /\ result' = [result EXCEPT
                             !.reference_links = @ \o CragWebLinks(web_sources),
                             !.final_response = "answer"]
    /\ pc' = "returned"
    /\ UNCHANGED <<config, query, retrieval_decision, documents, strategy, orchVars, cragVars>>

\* max(seq, key=...): the first element no later element exceeds
RECURSIVE FirstMax(_, _, _, _)
FirstMax(seq, Greater(_, _), i, best) ==
    IF i > Len(seq) THEN best
    ELSE FirstMax(seq, Greater, i + 1, IF Greater(seq[i], best) THEN seq[i] ELSE best)

\* line 367: max(relevant_contexts, key=lambda x: x[2])
BestContext(contexts) ==
    LET Greater(a, b) == a.score > b.score
    IN FirstMax(contexts, Greater, 2, contexts[1])

\* lines 363-392: combine the best retrieved document with web knowledge
CragHybrid ==
    /\ pipeline = "combined" /\ pc = "hybrid"
    /\ \E raw \in WebRawResults, key_points \in KeyPointAnswers,
          doc_points \in KeyPointAnswers :
         LET best_context == BestContext(relevant_contexts)
             retrieved_knowledge == extract_knowledge(doc_points)
             doc_url == Get(best_context.metadata, "url", "No URL available")
             doc_links == IF doc_url # "No URL available"
                          THEN <<ReferenceLink("Retrieved document", doc_url)>>
                          ELSE <<>>
             web_knowledge == extract_knowledge(key_points)
             web_sources == CragWebSources(raw)
             input_data == [query |-> query,
                            context |-> [kind |-> "hybrid",
                                         retrieved_from |-> best_context.context.id,
                                         retrieved |-> retrieved_knowledge,
                                         knowledge |-> web_knowledge,
                                         sources |-> web_sources]]
         IN /\ calls' = calls \o <<Call("refine", best_context.context.id)>> \o WebCalls
                              \o <<Call("generate", input_data)>>
            /\ result' = [result EXCEPT
                             !.reference_links = @ \o doc_links \o CragWebLinks(web_sources),
                             !.final_response = "answer"]
    /\ pc' = "returned"
    /\ UNCHANGED <<config, query, retrieval_decision, documents, strategy, orchVars, cragVars>>

\* variant for C13: the utility of a response is graded before its support
GradeUtilityFirst ==
    /\ pipeline = "combined" /\ pc = "kb_only"
    /\ Len(responses) < Len(relevant_contexts)
    /\ \E support \in SupportAnswers, utility \in UtilityValues :
         LET candidate == relevant_contexts[Len(responses) + 1]
             response == "answer from " \o ToString(candidate.context.id)
             input_data == [query |-> query,
                            context |-> [kind |-> "kb",
                                         kb |-> <<[content |-> candidate.context]>>]]
         IN /\ responses' = Append(responses,
                                   [response |-> response, support |-> StripLower(support),
                                    utility |-> utility, metadata |-> candidate.metadata])
            /\ calls' = calls \o <<Call("generate", input_data),
                                   Call("utility", candidate.context.id),
                                   Call("support", candidate.context.id)>>
    /\ UNCHANGED <<config, pc, query, retrieval_decision, documents, strategy, orchVars,
                   eval_scores, relevant_contexts, result>>

\* lines 399-418: one iteration of the loop over relevant_contexts
CragGradeCandidate ==
    /\ pipeline = "combined" /\ pc = "kb_only"
    /\ Len(responses) < Len(relevant_contexts)
    /\ \E support \in SupportAnswers, utility \in UtilityValues :
         LET candidate == relevant_contexts[Len(responses) + 1]
             response == "answer from " \o ToString(candidate.context.id)
             input_data == [query |-> query,
                            context |-> [kind |-> "kb",
                                         kb |-> <<[content |-> candidate.context]>>]]
         IN /\ responses' = Append(responses,
                                   [response |-> response, support |-> StripLower(support),
                                    utility |-> utility, metadata |-> candidate.metadata])
            /\ calls' = calls \o <<Call("generate", input_data),
                                   Call("support", candidate.context.id),
                                   Call("utility", candidate.context.id)>>
    /\ UNCHANGED <<config, pc, query, retrieval_decision, documents, strategy, orchVars,
                   eval_scores, relevant_contexts, result>>

\* variant for C9: selection by utility alone
UtilityOnlyBest(graded) ==
    LET Greater(a, b) == a.utility > b.utility
    IN FirstMax(graded, Greater, 2, graded[1])

\* variant for C10: a later candidate with an equal key replaces the earlier one
LastBest(graded) ==
    LET full(x) == x.support = "fully supported"
        GreaterOrEqual(a, b) == \/ full(a) /\ ~full(b)
                                \/ full(a) = full(b) /\ a.utility >= b.utility
    IN FirstMax(graded, GreaterOrEqual, 2, graded[1])

\* line 422: max(responses, key=lambda x: (x[1] == 'fully supported', x[2]))
BestResponse(graded) ==
    LET full(x) == x.support = "fully supported"
        Greater(a, b) == \/ full(a) /\ ~full(b)
                         \/ full(a) = full(b) /\ a.utility > b.utility
    IN FirstMax(graded, Greater, 2, graded[1])

\* variant for C11: the link is taken from the first candidate, not the winner
CragSelectFirstSource ==
    /\ pipeline = "combined" /\ pc = "kb_only"
    /\ Len(responses) = Len(relevant_contexts)
    /\ LET best_response == BestResponse(responses)
           source_url == Get(responses[1].metadata, "url", "No source URL available")
       IN result' = [result EXCEPT
                        !.reference_links =
                            IF source_url # "No source URL available"
                            THEN Append(@, ReferenceLink("Primary source", source_url))
                            ELSE @,
                        !.final_response = best_response.response]
    /\ pc' = "returned"
    /\ UNCHANGED <<config, query, retrieval_decision, documents, strategy, orchVars, cragVars, calls>>

\* lines 420-431: selection of the best response and return
CragSelect ==
    /\ pipeline = "combined" /\ pc = "kb_only"
    /\ Len(responses) = Len(relevant_contexts)
    /\ LET best_response == BestResponse(responses)
           source_url == Get(best_response.metadata, "url", "No source URL available")
       IN result' = [result EXCEPT
                        !.reference_links =
                            IF source_url # "No source URL available"
                            THEN Append(@, ReferenceLink("Primary source", source_url))
                            ELSE @,
                        !.final_response = best_response.response]
    /\ pc' = "returned"
    /\ UNCHANGED <<config, query, retrieval_decision, documents, strategy, orchVars, cragVars, calls>>

\* lines 432-437: generation without retrieval
CragGenerateDirect ==
    /\ pipeline = "combined" /\ pc = "direct"
    /\ calls' = Append(calls, Call("generate", [query |-> query, context |-> [kind |-> "none"]]))
    /\ result' = [result EXCEPT !.final_response = "answer"]
    /\ pc' = "returned"
    /\ UNCHANGED <<config, query, retrieval_decision, documents, strategy, orchVars, cragVars>>

\* an external service call of the current stage raises; run() has no handler
CragServiceRaises ==
    /\ pipeline = "combined"
    /\ \/ pc \in {"start", "direct", "web_only", "hybrid"}
       \/ pc = "evaluate" /\ Len(eval_scores) < Len(documents)
       \/ pc = "kb_only" /\ Len(responses) < Len(relevant_contexts)
    /\ calls' = Append(calls, Call("raise", pc))
    /\ pc' = "raised"
    /\ UNCHANGED <<config, query, retrieval_decision, documents, strategy, orchVars, cragVars, result>>

NextCombined ==
    \/ CragConstruct
    \/ CragRetrieve
    \/ CragEvaluate
    \/ CragChoose
    \/ CragWebOnly
    \/ CragHybrid
    \/ CragGradeCandidate
    \/ CragSelect
    \/ CragGenerateDirect
    \/ CragServiceRaises

SpecCombined == InitCombined /\ [][NextCombined]_vars

----------------------------------------------------------------------------
(* The applications that wrap Orchestrator.run: the Streamlit app and the
   FastAPI endpoints /chat and /chat/form *)

WrapperEntryPoints == {"streamlit", "chat", "chat_form"}

Apology == [kind |-> "apology"]
Answer(res) == [kind |-> "answer", final_response |-> res.final_response]
HttpError(status) == [kind |-> "http_error", status |-> status]

\* main.py constructs Orchestrator(faiss_index_path, model) with the default
\* thresholds 0.3 and 0.7; the endpoints pass the chat history as a list;
\* requests without an image
InitEntry ==
    /\ pipeline = "orchestrator"
    /\ lower_threshold = 3 /\ upper_threshold = 7
    /\ IdleSelector
    /\ pc = "construct"
    /\ query = "q"
    /\ image_bytes = "none"
    /\ conversation_history \in {PyList(<<>>), PyList(<<"turn">>)}
    /\ retrieval_decision = "unset"
    /\ documents = <<>>
    /\ relevance_scores = <<>>
    /\ strategy = "unset"
    /\ web_result = NoValue
    /\ eval_scores = <<>>
    /\ relevant_contexts = <<>>
    /\ responses = <<>>
    /\ calls = <<>>
    /\ result = NoValue
    /\ vectorstore = "unset"
    /\ entry_point \in WrapperEntryPoints
    /\ delivered = NoValue
    /\ earlier = <<>>

\* main.py generate_response lines 76-84: (result, None), or on any exception
\* the pair (apology string, None); the first component is modelled
generate_response ==
    IF pc = "returned" THEN [t |-> "QueryResult", v |-> result]
    ELSE PyStr("Sorry, I encountered an error")

\* main-streamlit.py generate_response lines 279-294
StreamlitGenerateResponse ==
    /\ pipeline = "orchestrator" /\ entry_point = "streamlit"
    /\ pc \in {"returned", "raised"}
    /\ delivered' = IF pc = "returned" THEN Answer(result) ELSE Apology
    /\ pc' = "delivered"
    /\ UNCHANGED <<request, vectorstore, earlier, query, retrieval_decision, documents,
                   relevance_scores, strategy, web_result, cragVars, calls, result>>

\* main.py chat_form_endpoint lines 196-228: result.final_response is read from
\* whatever generate_response returned; on a string that raises AttributeError,
\* which the endpoint turns into HTTP 500
ChatFormEndpoint ==
    /\ pipeline = "orchestrator" /\ entry_point = "chat_form"
    /\ pc \in {"returned", "raised"}
    /\ LET response == generate_response
       IN delivered' = IF response.t = "QueryResult" THEN Answer(response.v)
                       ELSE HttpError(500)
    /\ pc' = "delivered"
    /\ UNCHANGED <<request, vectorstore, earlier, query, retrieval_decision, documents,
                   relevance_scores, strategy, web_result, cragVars, calls, result>>

\* main.py chat_endpoint lines 265-288: ChatResponse is not defined anywhere in
\* main.py, so building the reply raises NameError, turned into HTTP 500
ChatEndpoint ==
    /\ pipeline = "orchestrator" /\ entry_point = "chat"
    /\ pc \in {"returned", "raised"}
    /\ delivered' = HttpError(500)
    /\ pc' = "delivered"
    /\ UNCHANGED <<request, vectorstore, earlier, query, retrieval_decision, documents,
                   relevance_scores, strategy, web_result, cragVars, calls, result>>

NextEntry ==
    \/ NextOrchestrator
    \/ StreamlitGenerateResponse
    \/ ChatFormEndpoint
    \/ ChatEndpoint

SpecEntry == InitEntry /\ [][NextEntry]_vars

----------------------------------------------------------------------------
(* One Orchestrator object serving several queries, as the module-level
   orchestrator of main.py does *)

InitSession ==
    /\ pipeline = "orchestrator"
    /\ \E th \in ThresholdPairs : lower_threshold = th[1] /\ upper_threshold = th[2]
    /\ IdleSelector
    /\ pc = "construct"
    /\ query = "q"
    /\ image_bytes = "none"
    /\ conversation_history = NoValue
    /\ retrieval_decision = "unset"
    /\ documents = <<>>
    /\ relevance_scores = <<>>
    /\ strategy = "unset"
    /\ web_result = NoValue
    /\ eval_scores = <<>>
    /\ relevant_contexts = <<>>
    /\ responses = <<>>
    /\ calls = <<>>
    /\ result = NoValue
    /\ vectorstore = "unset"
    /\ entry_point = "session"
    /\ delivered = NoValue
    /\ earlier = <<>>

\* variant for C26: the relevance scores of the previous query are kept
NextQueryKeepsScores ==
    /\ pipeline = "orchestrator" /\ entry_point = "session"
    /\ pc \in {"returned", "raised"}
    /\ Len(earlier) + 1 < MaxQueries
    /\ earlier' = Append(earlier, strategy)
    /\ pc' = "start"
    /\ query' = "q"
    /\ retrieval_decision' = "unset"
    /\ documents' = <<>>
    /\ strategy' = "unset"
    /\ web_result' = NoValue
    /\ result' = NoValue
    /\ calls' = SubSeq(calls, 1, 1)
    /\ UNCHANGED <<request, vectorstore, delivered, cragVars, relevance_scores>>

\* Orchestrator.run is entered again on the same object: everything run()
\* works on is a local variable, created anew by the call; the object's
\* fields (agents, thresholds, index) are only read. The log restarts after
\* the construction entry.
OrchNextQuery ==
    /\ pipeline = "orchestrator" /\ entry_point = "session"
    /\ pc \in {"returned", "raised"}
    /\ Len(earlier) + 1 < MaxQueries
    /\ earlier' = Append(earlier, strategy)
    /\ pc' = "start"
    /\ query' = "q"
    /\ retrieval_decision' = "unset"
    /\ documents' = <<>>
    /\ relevance_scores' = <<>>
    /\ strategy' = "unset"
    /\ web_result' = NoValue
    /\ result' = NoValue
    /\ calls' = SubSeq(calls, 1, 1)
    /\ UNCHANGED <<request, vectorstore, delivered, cragVars>>

NextSession == NextOrchestrator \/ OrchNextQuery

SpecSession == InitSession /\ [][NextSession]_vars

----------------------------------------------------------------------------
(* All entry points *)

Init == InitSelector \/ InitOrchestrator \/ InitCombined \/ InitEntry \/ InitSession

Next == NextSelector \/ NextCombined \/ NextEntry \/ OrchNextQuery

Spec == Init /\ [][Next]_vars

----------------------------------------------------------------------------
(* Properties *)

Returned(p) == pipeline = p /\ pc = "returned"

Ops == {calls[i].op : i \in 1..Len(calls)}

SelScoreSet == {selScores[i].score : i \in 1..Len(selScores)}

\* C1: for thresholds lower < upper, determine_retrieval_strategy returns
\* web_only exactly when the list is empty or its maximum is below lower,
\* hybrid exactly when lower <= maximum < upper, kb_only exactly when the
\* maximum is >= upper; with (0.3, 0.7): [] and [0.2] give web_only, [0.5]
\* gives hybrid, [0.9] gives kb_only.
C1_StrategyBands ==
    (pipeline = "selector" /\ selCalls > 0 /\ lower_threshold < upper_threshold) =>
        /\ selResult = "web_only" <=>
              \A s \in SelScoreSet : s < lower_threshold
        /\ selResult = "hybrid" <=>
              /\ \E s \in SelScoreSet : s >= lower_threshold
              /\ \A s \in SelScoreSet : s < upper_threshold
        /\ selResult = "kb_only" <=>
              \E s \in SelScoreSet : s >= upper_threshold
        /\ (lower_threshold = 3 /\ upper_threshold = 7) =>
              /\ SelScoreSet \in {{}, {2}} => selResult = "web_only"
              /\ SelScoreSet = {5} => selResult = "hybrid"
              /\ SelScoreSet = {9} => selResult = "kb_only"

\* a call on a list whose maximum equals the lower threshold
C1_Witness ==
    /\ pipeline = "selector" /\ selCalls > 0
    /\ Len(selScores) >= 2
    /\ lower_threshold \in SelScoreSet
    /\ \A s \in SelScoreSet : s <= lower_threshold
    /\ selResult = "hybrid"

\* C2: determine_retrieval_strategy depends only on the maximum score and the
\* thresholds: once it has returned a value, reordering the list, changing
\* is_relevant flags and calling it again leave the returned value and the
\* thresholds of the agent unchanged.
C2_SelectorIsPure ==
    [][(pipeline = "selector" /\ selCalls > 0) =>
          /\ selResult' = selResult
          /\ lower_threshold' = lower_threshold
          /\ upper_threshold' = upper_threshold]_vars

\* a second call after the list was reordered and a flag was changed
C2_Witness ==
    /\ pipeline = "selector" /\ selCalls >= 2
    /\ Len(selScores) >= 2
    /\ selScores[1].score > selScores[2].score
    /\ selScores[1].score >= upper_threshold
    /\ selScores[2].score < lower_threshold
    /\ selScores[2].is_relevant
    /\ selResult = "kb_only"

LastCall == calls[Len(calls)]

\* C3: when the retrieval gate answers "no", Orchestrator.run makes no
\* similarity search, no relevance evaluation and no web search, generates in
\* no-context mode, and returns empty reference_links and relevant_docs.
C3_GateNoSkipsRetrieval ==
    (Returned("orchestrator") /\ retrieval_decision = "no") =>
        /\ Ops \cap {"search", "binary", "score", "rewrite", "websearch", "refine"} = {}
        /\ LastCall.op = "generate"
        /\ LastCall.arg.context.kind = "none"
        /\ Cardinality({i \in 1..Len(calls) : calls[i].op = "generate"}) = 1
        /\ result.reference_links = <<>>
        /\ result.relevant_docs = <<>>

\* a run whose gate answered "no" has returned
C3_Witness ==
    /\ Returned("orchestrator")
    /\ retrieval_decision = "no"
    /\ result.final_response = "answer"

\* C4: relevant_docs of every QueryResult returned by Orchestrator.run is
\* sorted by score, highest first.
C4_RelevantDocsSorted ==
    Returned("orchestrator") =>
        \A i, j \in 1..Len(result.relevant_docs) :
            i < j => result.relevant_docs[i].score >= result.relevant_docs[j].score

\* documents scored in increasing order were returned
C4_Witness ==
    /\ Returned("orchestrator")
    /\ Len(relevance_scores) = 3
    /\ relevance_scores[1].score < relevance_scores[2].score
    /\ relevance_scores[2].score < relevance_scores[3].score
    /\ Len(result.relevant_docs) = 3

\* the continuous score given to retrieved document i
ScoreOf(i) ==
    IF pipeline = "orchestrator" THEN relevance_scores[i].score ELSE eval_scores[i]

\* the binary judgment given to retrieved document i
JudgedRelevant(i) ==
    IF pipeline = "orchestrator" THEN relevance_scores[i].is_relevant
    ELSE \E j \in 1..Len(relevant_contexts) :
            relevant_contexts[j].context.id = documents[i].content.id

Reported(i) ==
    \E j \in 1..Len(result.relevant_docs) :
        /\ result.relevant_docs[j].content_preview.id = documents[i].content.id
        /\ result.relevant_docs[j].score = ScoreOf(i)

\* C5: after retrieval, a retrieved document is in the returned relevant_docs
\* if and only if its score is >= lower_threshold, whatever its binary
\* judgment and the strategy, in Orchestrator.run and in CombinedRAG.run.
C5_RelevantDocsByScore ==
    ((Returned("orchestrator") \/ Returned("combined")) /\ retrieval_decision = "yes") =>
        /\ \A i \in 1..Len(documents) : Reported(i) <=> ScoreOf(i) >= lower_threshold
        /\ Len(result.relevant_docs) =
              Cardinality({i \in 1..Len(documents) : ScoreOf(i) >= lower_threshold})

\* a document judged Irrelevant is reported, one judged Relevant is not
C5_Witness ==
    /\ Returned("combined")
    /\ Len(documents) = 2
    /\ ~JudgedRelevant(1) /\ Reported(1)
    /\ JudgedRelevant(2) /\ ~Reported(2)

----------------------------------------------------------------------------
DocIds == {documents[i].content.id : i \in 1..Len(documents)}

\* the documents whose content was put into the context of a generation call
KbCandidates ==
    UNION { {calls[i].arg.context.kb[k].content.id : k \in 1..Len(calls[i].arg.context.kb)} :
            i \in {n \in 1..Len(calls) : /\ calls[n].op = "generate"
                                         /\ calls[n].arg.context.kind \in {"kb", "hybrid"}
                                         /\ "kb" \in DOMAIN calls[n].arg.context} }

\* C6: when Orchestrator.run selects kb_only, the documents handed to the
\* generator are exactly the retrieved documents judged "Relevant"; a document
\* judged "Irrelevant" never contributes to the generation context.
C6_OnlyBinaryRelevantGenerated ==
    (Returned("orchestrator") /\ strategy = "kb_only") =>
        KbCandidates = {documents[i].content.id : i \in {n \in 1..Len(documents) : JudgedRelevant(n)}}

\* retrieval was performed, some score reaches the upper threshold and no
\* document was judged Relevant
HighScoreNoneRelevant ==
    /\ Returned("orchestrator") \/ Returned("combined")
    /\ retrieval_decision = "yes"
    /\ \E i \in 1..Len(documents) : ScoreOf(i) >= upper_threshold
    /\ \A i \in 1..Len(documents) : ~JudgedRelevant(i)

\* C7 as stated: with a maximum score >= upper_threshold and no document
\* judged "Relevant", the pipeline stays on the knowledge-base-only path and
\* generates from exactly one document, the one with the highest score.
C7_FallbackToBestDocument ==
    HighScoreNoneRelevant =>
        /\ strategy = "kb_only"
        /\ \E i \in 1..Len(documents) :
              /\ KbCandidates = {documents[i].content.id}
              /\ \A j \in 1..Len(documents) : ScoreOf(j) <= ScoreOf(i)

\* C7 amended: with a maximum score >= upper_threshold and no document judged
\* "Relevant", CombinedRAG.run leaves the knowledge-base path and answers from
\* a web search alone, generating and grading no candidate, and
\* Orchestrator.run stays on the kb_only path and generates from all the
\* retrieved documents.
C7_NoFallbackCandidate ==
    HighScoreNoneRelevant =>
        /\ pipeline = "combined" =>
              /\ strategy = "web_only"
              /\ KbCandidates = {}
              /\ "websearch" \in Ops
              /\ Ops \cap {"support", "utility"} = {}
        /\ pipeline = "orchestrator" =>
              /\ strategy = "kb_only"
              /\ KbCandidates = DocIds
              /\ "websearch" \notin Ops

\* three documents, the best one at the upper threshold, none judged Relevant
C7_Witness ==
    /\ HighScoreNoneRelevant
    /\ Len(documents) = 3
    /\ \E i \in 1..Len(documents) : ScoreOf(i) = upper_threshold
    /\ \E i \in 1..Len(documents) : ScoreOf(i) < lower_threshold

SomeAtLeast(x) == \E i \in 1..Len(eval_scores) : eval_scores[i] >= x
AllBelow(x) == \A i \in 1..Len(eval_scores) : eval_scores[i] < x

\* C8 as stated: the path of CombinedRAG.run after scoring depends only on
\* the maximum score and the thresholds: web alone exactly when nothing was
\* retrieved or max < lower, knowledge base plus web exactly when
\* lower <= max < upper, knowledge base alone exactly when max >= upper.
C8_PathByScoreOnly ==
    (pipeline = "combined" /\ strategy # "unset") =>
        /\ strategy = "web_only" <=> AllBelow(lower_threshold)
        /\ strategy = "hybrid" <=> (SomeAtLeast(lower_threshold) /\ AllBelow(upper_threshold))
        /\ strategy = "kb_only" <=> SomeAtLeast(upper_threshold)

\* C8 amended: the path depends on the maximum score, the thresholds and on
\* whether any document was judged "Relevant": web alone exactly when no
\* document was judged Relevant (or none was retrieved) or max < lower;
\* knowledge base plus web exactly when some document was judged Relevant and
\* lower <= max < upper; knowledge base alone exactly when some document was
\* judged Relevant and max >= upper.
C8_PathByScoreAndJudgment ==
    (pipeline = "combined" /\ strategy # "unset") =>
        /\ strategy = "web_only" <=>
              (relevant_contexts = <<>> \/ AllBelow(lower_threshold))
        /\ strategy = "hybrid" <=>
              /\ relevant_contexts # <<>>
              /\ SomeAtLeast(lower_threshold) /\ AllBelow(upper_threshold)
        /\ strategy = "kb_only" <=>
              (relevant_contexts # <<>> /\ SomeAtLeast(upper_threshold))

\* a maximum between the thresholds with no document judged Relevant
C8_Witness ==
    /\ Returned("combined")
    /\ Len(documents) = 2
    /\ relevant_contexts = <<>>
    /\ SomeAtLeast(lower_threshold) /\ AllBelow(upper_threshold)
    /\ strategy = "web_only"

FullySupported(r) == r.support = "fully supported"

\* r is at least as good as s in the order (fully supported?, utility)
KeyAtLeast(r, s) ==
    \/ FullySupported(r) /\ ~FullySupported(s)
    \/ FullySupported(r) = FullySupported(s) /\ r.utility >= s.utility

\* positions of the graded candidates whose response was returned
SelectedPositions ==
    {i \in 1..Len(responses) : responses[i].response = result.final_response}

\* C9: on the knowledge-base-only path of CombinedRAG.run the returned
\* response maximizes the key (support == "fully supported", utility): a fully
\* supported candidate beats every candidate that is not, whatever the
\* utilities, and with equal support test the higher utility wins.
C9_BestByLexicographicKey ==
    (Returned("combined") /\ strategy = "kb_only") =>
        /\ Cardinality(SelectedPositions) = 1
        /\ \A i \in SelectedPositions, j \in 1..Len(responses) :
              /\ KeyAtLeast(responses[i], responses[j])
              /\ FullySupported(responses[j]) => FullySupported(responses[i])
              /\ FullySupported(responses[j]) = FullySupported(responses[i])
                    => responses[i].utility >= responses[j].utility

\* (A, partially supported, 5) and (B, fully supported, 2): B is returned
C9_Witness ==
    /\ Returned("combined") /\ strategy = "kb_only"
    /\ Len(responses) = 2
    /\ responses[1].support = "partially supported" /\ responses[1].utility = 5
    /\ responses[2].support = "fully supported" /\ responses[2].utility = 2
    /\ result.final_response = responses[2].response

\* C10: when several graded candidates share the maximal key, the one
\* generated first is returned.
C10_TieKeepsFirst ==
    (Returned("combined") /\ strategy = "kb_only") =>
        \A i \in SelectedPositions, j \in 1..Len(responses) :
            (KeyAtLeast(responses[j], responses[i]) /\ KeyAtLeast(responses[i], responses[j]))
                => i <= j

\* three candidates, the last two tied at the top, the second is returned
C10_Witness ==
    /\ Returned("combined") /\ strategy = "kb_only"
    /\ Len(responses) = 3
    /\ ~FullySupported(responses[1])
    /\ FullySupported(responses[2]) /\ FullySupported(responses[3])
    /\ responses[2].utility = responses[3].utility
    /\ result.final_response = responses[2].response

----------------------------------------------------------------------------
(* C11 .. C20 *)

HasUrl(r) == "url" \in DOMAIN r.metadata

\* C11 as stated: every result of the knowledge-base-only path of
\* CombinedRAG.run has exactly one reference link, titled "Primary source" and
\* pointing to the winning candidate's source document.
C11_ExactlyOnePrimaryLink ==
    (Returned("combined") /\ strategy = "kb_only") =>
        /\ Len(result.reference_links) = 1
        /\ result.reference_links[1].title = "Primary source"
        /\ \E i \in SelectedPositions :
              /\ HasUrl(responses[i])
              /\ result.reference_links[1].url = responses[i].metadata.url

\* C11 amended: the result of the knowledge-base-only path of CombinedRAG.run
\* has one reference link, titled "Primary source" and carrying the 'url'
\* metadata entry of the winning candidate, when the winner's metadata has a
\* 'url' entry, and no reference link at all when it has none.
C11_PrimaryLinkWhenUrlKnown ==
    (Returned("combined") /\ strategy = "kb_only") =>
        \A i \in SelectedPositions :
            result.reference_links =
                IF HasUrl(responses[i])
                THEN <<ReferenceLink("Primary source", responses[i].metadata.url)>>
                ELSE <<>>

\* the winner is the third candidate, whose metadata has no 'url' entry, while
\* the other candidates have one: the result carries no link
C11_Witness ==
    /\ Returned("combined") /\ strategy = "kb_only"
    /\ Len(responses) = 3
    /\ SelectedPositions = {3}
    /\ HasUrl(responses[1]) /\ HasUrl(responses[2]) /\ ~HasUrl(responses[3])
    /\ result.reference_links = <<>>

\* number of calls of one kind in the log
CountOp(op) == Cardinality({i \in 1..Len(calls) : calls[i].op = op})

\* C12 as stated: on the knowledge-base-only path the final_response of
\* Orchestrator.run is the candidate selected by the grader: one response is
\* generated per candidate document and each is graded for support and utility
\* before the result is returned.
C12_GraderSelectsFinalResponse ==
    (Returned("orchestrator") /\ strategy = "kb_only") =>
        /\ CountOp("generate") = Len(documents)
        /\ CountOp("support") = Len(documents)
        /\ CountOp("utility") = Len(documents)

\* the generation and grading calls of the log, in order
GradeCalls == SelectSeq(calls, LAMBDA c : c.op \in {"generate", "support", "utility"})

\* C13: in CombinedRAG.run support and utility calls occur only on the
\* knowledge-base-only path; there the k-th candidate gets one generation call,
\* then one support call, then one utility call, candidate after candidate, and
\* the response is selected only when every candidate has been graded.
C13_GradeEachCandidateThenSelect ==
    pipeline = "combined" =>
        /\ (Ops \cap {"support", "utility"} # {}) => strategy = "kb_only"
        /\ strategy = "kb_only" =>
              /\ Len(GradeCalls) = 3 * Len(responses)
              /\ \A k \in 1..Len(responses) :
                    LET id == relevant_contexts[k].context.id
                    IN /\ GradeCalls[3 * k - 2].op = "generate"
                       /\ GradeCalls[3 * k - 2].arg.context.kb[1].content.id = id
                       /\ GradeCalls[3 * k - 1] = Call("support", id)
                       /\ GradeCalls[3 * k] = Call("utility", id)
              /\ pc = "returned" => Len(responses) = Len(relevant_contexts)
              /\ pc # "returned" => result.final_response = ""

\* three candidates were generated and graded, then one was returned
C13_Witness ==
    /\ Returned("combined") /\ strategy = "kb_only"
    /\ Len(relevant_contexts) = 3 /\ Len(responses) = 3
    /\ CountOp("generate") = 3 /\ CountOp("support") = 3 /\ CountOp("utility") = 3

\* the web-search stage of Orchestrator.run was ended by an exception
WebStageRaised ==
    /\ pipeline = "orchestrator" /\ pc = "raised"
    /\ LastCall = Call("raise", "web")

\* C14 as stated: when the raw web-search output is malformed or unparseable,
\* or the refinement step fails, WebSearchAgent.run returns a WebSearchResult
\* whose sources is the empty list and whose knowledge is the empty string.
C14_MalformedWebOutputDegrades ==
    pipeline = "orchestrator" =>
        /\ \A i \in 1..Len(calls) :
              (calls[i].op = "refine" /\ ~calls[i].arg.json) =>
                  /\ web_result.sources = <<>>
                  /\ web_result.knowledge = <<>>
        /\ ~(WebStageRaised /\ web_result = NoValue)

\* C15 as stated: a failure of a web-search step never propagates out of
\* Orchestrator.run; on the web-only and hybrid paths a QueryResult is
\* still returned.
C15_WebFailureNeverPropagates ==
    (pipeline = "orchestrator" /\ strategy \in {"web_only", "hybrid"}) =>
        ~WebStageRaised

\* the generation call for the final answer raised
GenerationRaised ==
    /\ pipeline = "orchestrator"
    /\ \E i \in 1..Len(calls) :
          calls[i].op = "raise" /\ calls[i].arg \in {"generate", "direct"}

\* C16 as stated: when the generation call for the final answer fails, the
\* caller receives an apology-style response instead of a raw error, from
\* Orchestrator.run itself and from every entry point wrapping it
\* (generate_response of the Streamlit app, /chat and /chat/form).
C16_GenerationFailureGivesApology ==
    GenerationRaised =>
        /\ entry_point = "run" => (pc # "raised" /\ result # NoValue)
        /\ (entry_point \in WrapperEntryPoints /\ pc = "delivered") => delivered = Apology

\* C17: if the similarity index cannot be loaded, construction of the pipeline
\* fails and no pipeline object exists afterwards, so no query is processed
\* against a missing index; the index is loaded at construction only, as the
\* first and only load of a pipeline's life, never per query.
C17_IndexLoadedOnlyAtConstruction ==
    pipeline \in {"orchestrator", "combined"} =>
        /\ \A i \in 1..Len(calls) : calls[i].op = "load_index" => i = 1
        /\ pc # "construct" => (calls # <<>> /\ calls[1].op = "load_index")
        /\ pc = "construct_failed" => (vectorstore = "unset" /\ Len(calls) = 1)
        /\ vectorstore = "unset" => (Ops \subseteq {"load_index"} /\ pc \in {"construct", "construct_failed"})
        /\ "search" \in Ops => vectorstore = "loaded"

\* the load failed: construction was aborted and nothing else was called
C17_Witness ==
    /\ pipeline = "orchestrator"
    /\ pc = "construct_failed"
    /\ vectorstore = "unset"
    /\ calls = <<Call("load_index", "faiss_index_path")>>

\* positions in the log of the calls of the given kinds
Pos(ops) == {i \in 1..Len(calls) : calls[i].op \in ops}

\* every call of the first group precedes every call of the second
Precede(first, second) == \A i \in Pos(first), j \in Pos(second) : i < j

RetrievalOps == {"gate", "search"}
RelevanceOps == {"binary", "score"}
WebOps == {"rewrite", "websearch", "refine"}

\* C18: within one Orchestrator.run the stages run strictly in the order
\* gate/retrieval, relevance evaluation of all documents, strategy selection,
\* web search (if any), final generation: no relevance call precedes the end
\* of retrieval, no web-search call precedes the strategy decision, and the
\* generation call starts only after every evaluation call and any web-search
\* call has completed.
C18_StagesInOrder ==
    pipeline = "orchestrator" =>
        /\ Precede(RetrievalOps, RelevanceOps \cup WebOps \cup {"generate"})
        /\ Precede(RelevanceOps, WebOps \cup {"generate"})
        /\ Precede(WebOps, {"generate"})
        /\ Pos(RelevanceOps) # {} =>
              (retrieval_decision = "yes" /\ CountOp("search") = 1)
        /\ Pos(WebOps) # {} =>
              /\ strategy \in {"web_only", "hybrid"}
              /\ CountOp("binary") = Len(documents) /\ CountOp("score") = Len(documents)
        /\ CountOp("generate") <= 1
        /\ (CountOp("generate") = 1 /\ retrieval_decision = "yes") =>
              /\ strategy # "unset"
              /\ CountOp("binary") = Len(documents) /\ CountOp("score") = Len(documents)
              /\ strategy \in {"web_only", "hybrid"} <=> Pos(WebOps) # {}
              /\ Pos(WebOps) # {} => \A op \in WebOps : CountOp(op) = 1

\* a hybrid run went through every stage: two documents evaluated, the
\* strategy chosen, the web searched and the answer generated
C18_Witness ==
    /\ Returned("orchestrator") /\ strategy = "hybrid"
    /\ Len(documents) = 2
    /\ CountOp("binary") = 2 /\ CountOp("score") = 2
    /\ CountOp("refine") = 1 /\ CountOp("generate") = 1

\* number of documents whose evaluation is finished
Evaluated ==
    IF pipeline = "orchestrator" THEN Len(relevance_scores) ELSE Len(eval_scores)

\* the passage a relevance call was made for
DocOf(c) == IF pipeline = "orchestrator" THEN c.arg.doc ELSE c.arg

\* C19: for every retrieved document both the binary relevance judgment and
\* the continuous score are requested, whatever the other judgment and the
\* earlier documents gave: after n evaluated documents exactly n binary and n
\* score calls were made, one of each per document, and each RelevanceScore
\* holds both values, whether or not they agree.
C19_BothJudgmentsAlways ==
    pipeline \in {"orchestrator", "combined"} =>
        /\ CountOp("binary") = Evaluated
        /\ CountOp("score") = Evaluated
        /\ \A k \in 1..Evaluated : \A op \in RelevanceOps :
              \E i \in Pos({op}) : DocOf(calls[i]) = documents[k].content.id
        /\ \A k \in 1..Len(relevance_scores) :
              /\ DOMAIN relevance_scores[k] = {"score", "is_relevant"}
              /\ relevance_scores[k].score \in ScoreValues
              /\ relevance_scores[k].is_relevant \in BOOLEAN

\* the first document was scored 0.9 but judged irrelevant, the second was
\* scored 0.2 but judged relevant: both calls were made for both
C19_Witness ==
    /\ pipeline = "orchestrator"
    /\ Len(relevance_scores) = 2
    /\ relevance_scores[1] = RelevanceScore(9, FALSE)
    /\ relevance_scores[2] = RelevanceScore(2, TRUE)
    /\ CountOp("binary") = 2 /\ CountOp("score") = 2

\* the query text a logged call was made with
QueryOf(c) ==
    IF c.op \in RelevanceOps \cup {"generate"} THEN c.arg.query ELSE c.arg

\* the stages after the image analysis
LaterOps == RetrievalOps \cup RelevanceOps \cup {"rewrite", "websearch", "generate"}

\* C20: in Orchestrator.run the image-analysis service is invoked at most
\* once per request, exactly when non-empty image bytes are supplied, with the
\* original query and before the retrieval gate; its output is the query of
\* every later stage (gate, retrieval, evaluation, web search, generation),
\* and without an image the original query is.
C20_ImageAnalysisReplacesQuery ==
    pipeline = "orchestrator" =>
        /\ CountOp("image") <= 1
        /\ CountOp("image") = 1 => image_bytes = "png"
        /\ \A i \in Pos({"image"}) : calls[i].arg = "q"
        /\ Precede({"image"}, LaterOps)
        /\ Pos(LaterOps) # {} =>
              CountOp("image") = (IF image_bytes = "png" THEN 1 ELSE 0)
        /\ \A i \in Pos(LaterOps) :
              QueryOf(calls[i]) = (IF image_bytes = "png" THEN "image analysis" ELSE "q")

\* a request with an image went through the gate, retrieval, evaluation,
\* web search and generation, all on the text of the image analysis
C20_Witness ==
    /\ Returned("orchestrator") /\ image_bytes = "png"
    /\ strategy = "hybrid"
    /\ CountOp("image") = 1
    /\ query = "image analysis"
    /\ \A op \in LaterOps : CountOp(op) >= 1
    /\ result.final_response # ""

----------------------------------------------------------------------------
(* C21 .. C30 *)

\* C21: in one Orchestrator.run the web search is executed exactly once when
\* the strategy is web_only or hybrid and never when the strategy is kb_only
\* or retrieval was skipped; the gate, the similarity search, the web search
\* and the final generation call are each made at most once per query.
C21_WebSearchOnceWhenNeeded ==
    pipeline = "orchestrator" =>
        /\ \A op \in {"gate", "search", "generate"} \cup WebOps : CountOp(op) <= 1
        /\ (pc \in {"generate", "returned"} /\ strategy \in {"web_only", "hybrid"}) =>
              \A op \in WebOps : CountOp(op) = 1
        /\ (strategy = "kb_only" \/ retrieval_decision \notin {"unset", "yes"}) =>
              Pos(WebOps) = {}

\* a web_only run returned after one rewrite, one search and one refinement
C21_Witness ==
    /\ Returned("orchestrator") /\ strategy = "web_only"
    /\ \A op \in {"gate", "search", "generate"} \cup WebOps : CountOp(op) = 1

\* the continuous score given to the k-th retrieved document
ContinuousScore(k) ==
    IF pipeline = "orchestrator" THEN relevance_scores[k].score ELSE eval_scores[k]

\* the passages whose content is the knowledge-base part of a generation input
KbPartOf(input_data) ==
    IF pipeline = "orchestrator"
    THEN {input_data.context.kb[k].content.id : k \in 1..Len(input_data.context.kb)}
    ELSE {input_data.context.retrieved_from}

\* C22 as stated: on the hybrid path the knowledge-base part of the generation
\* context comes from exactly one document, the retrieved document with the
\* highest continuous score, not from several and not from a lower-scoring one.
C22_HybridUsesBestSingleDocument ==
    (pipeline \in {"orchestrator", "combined"} /\ pc = "returned" /\ strategy = "hybrid") =>
        \A i \in Pos({"generate"}) :
            /\ Cardinality(KbPartOf(calls[i].arg)) = 1
            /\ \A k \in 1..Len(documents) :
                  documents[k].content.id \in KbPartOf(calls[i].arg) =>
                      \A j \in 1..Len(documents) : ContinuousScore(k) >= ContinuousScore(j)

\* the raw search output of the run's web search
RawOfRun == calls[CHOOSE i \in Pos({"refine"}) : TRUE].arg

\* the links are those of the raw results that carry a link, in search order
InSearchOrder(links, raw) ==
    LET Link(k) == Get(raw.results[k], "link", "")
        linked == {k \in 1..Len(raw.results) : raw.json /\ Link(k) # ""}
    IN /\ Len(links) = Cardinality(linked)
       /\ \A k \in linked : \E i \in 1..Len(links) : links[i].url = Link(k)
       /\ \A i, j \in 1..Len(links) :
             i < j => \E a, b \in linked : a < b /\ Link(a) = links[i].url
                                                  /\ Link(b) = links[j].url

\* a link made from a retrieved document that has a source URL
IsKbSource(l) ==
    \E k \in 1..Len(documents) :
        /\ Get(documents[k].metadata, "source_url", "") # ""
        /\ l.url = documents[k].metadata.source_url
        /\ l.title = "Document (score: " \o ToString(relevance_scores[k].score) \o ")"

\* C23: the sources returned by the generator follow the mode: no-context
\* returns an empty list, web-only exactly the web sources in their search
\* order, hybrid the knowledge-base sources first and then all web sources in
\* their search order, no web source standing before a knowledge-base source.
C23_SourcesFollowMode ==
    Returned("orchestrator") =>
        /\ retrieval_decision # "yes" => result.reference_links = <<>>
        /\ strategy = "web_only" =>
              /\ result.reference_links = web_result.sources
              /\ InSearchOrder(result.reference_links, RawOfRun)
        /\ strategy = "hybrid" =>
              \E n \in 0..Len(result.reference_links) :
                  /\ \A i \in 1..n : IsKbSource(result.reference_links[i])
                  /\ SubSeq(result.reference_links, n + 1, Len(result.reference_links))
                        = web_result.sources
                  /\ InSearchOrder(web_result.sources, RawOfRun)
                  /\ n = Cardinality({k \in 1..Len(documents) :
                                        Get(documents[k].metadata, "source_url", "") # ""})

\* a hybrid run over three documents, two of them with a source URL, and a web
\* search with two linked results: the document links come first
C23_Witness ==
    /\ Returned("orchestrator") /\ strategy = "hybrid"
    /\ Len(documents) = 3
    /\ Len(web_result.sources) = 2
    /\ Len(result.reference_links) = 4
    /\ IsKbSource(result.reference_links[1])
    /\ IsKbSource(result.reference_links[2])
    /\ result.reference_links[3].url = "https://a"
    /\ result.reference_links[4].url = "https://b"

\* the context of the run's generation call, as a list of tagged documents
KbContextOfRun == calls[CHOOSE i \in Pos({"generate"}) : TRUE].arg.context.kb

\* the retrieved document whose content is the i-th entry of the context
DocAt(ctx, i) == CHOOSE k \in 1..Len(documents) : documents[k].content = ctx[i].content

SourceUrl(k) == Get(documents[k].metadata, "source_url", "")

\* positions of the context whose document has a non-empty source URL
Linked(ctx) == {i \in 1..Len(ctx) : SourceUrl(DocAt(ctx, i)) # ""}

\* C24: in knowledge-base-only generation the candidate documents enter the
\* context in non-increasing score order, each tagged with its own score, and
\* the sources hold exactly one ReferenceLink for each candidate whose
\* metadata URL (the 'source_url' entry) is non-empty and none for the others,
\* in the same order as the context.
C24_KbContextSortedAndSourced ==
    (Returned("orchestrator") /\ strategy = "kb_only") =>
        LET ctx == KbContextOfRun
            links == result.reference_links
        IN /\ Len(ctx) = Len(documents)
           /\ \A k \in 1..Len(documents) :
                 \E i \in 1..Len(ctx) : ctx[i].content = documents[k].content
           /\ \A i \in 1..Len(ctx) :
                 ctx[i].relevance = relevance_scores[DocAt(ctx, i)].score
           /\ \A i, j \in 1..Len(ctx) : i < j => ctx[i].relevance >= ctx[j].relevance
           /\ Len(links) = Cardinality(Linked(ctx))
           /\ \A n \in 1..Len(links) :
                 \E i \in Linked(ctx) :
                     /\ Cardinality({h \in Linked(ctx) : h <= i}) = n
                     /\ links[n].url = SourceUrl(DocAt(ctx, i))
                     /\ links[n].title =
                            "Document (score: " \o ToString(ctx[i].relevance) \o ")"

\* three candidates scored 0.7, 0.5 and 0.9; the second has an empty source
\* URL: the context is ordered 0.9, 0.7, 0.5 and the links are those of the
\* third and the first document
C24_Witness ==
    /\ Returned("orchestrator") /\ strategy = "kb_only"
    /\ Len(documents) = 3
    /\ relevance_scores[1].score = 7 /\ relevance_scores[2].score = 5
    /\ relevance_scores[3].score = 9
    /\ Len(result.reference_links) = 2
    /\ result.reference_links[1].url = "source3"
    /\ result.reference_links[2].url = "source1"

\* C25 as stated: whenever the caller supplies a non-empty conversation
\* history to Orchestrator.run, that history is passed to the final generation
\* call in every mode (no-context, web-only, knowledge-base-only, hybrid).
C25_HistoryReachesGeneration ==
    (Returned("orchestrator") /\ Truthy(conversation_history)) =>
        \A i \in Pos({"generate"}) :
            /\ "history" \in DOMAIN calls[i].arg
            /\ calls[i].arg.history = conversation_history.v

\* the greatest continuous score of the current query
MaxOwnScore ==
    CHOOSE m \in {relevance_scores[k].score : k \in 1..Len(relevance_scores)} :
        \A k \in 1..Len(relevance_scores) : relevance_scores[k].score <= m

\* what the current query holds was produced from this query alone
QueryLocal ==
    /\ pc = "start" =>
          /\ documents = <<>> /\ relevance_scores = <<>>
          /\ retrieval_decision = "unset" /\ strategy = "unset"
          /\ web_result = NoValue /\ result = NoValue
          /\ Ops = {"load_index"}
    /\ Len(relevance_scores) <= Len(documents) /\ Len(documents) <= top_k
    /\ (strategy # "unset" /\ relevance_scores # <<>>) =>
          strategy = (IF MaxOwnScore < lower_threshold THEN "web_only"
                      ELSE IF MaxOwnScore < upper_threshold THEN "hybrid"
                      ELSE "kb_only")
    /\ (pc = "returned" /\ retrieval_decision = "yes") =>
          /\ Len(result.relevant_docs) =
                 Cardinality({k \in 1..Len(documents) :
                                 relevance_scores[k].score >= lower_threshold})
          /\ \A i \in 1..Len(result.reference_links) :
                 \/ IsKbSource(result.reference_links[i])
                 \/ /\ strategy \in {"web_only", "hybrid"}
                    /\ \E j \in 1..Len(web_result.sources) :
                          web_result.sources[j] = result.reference_links[i]

\* C26: the core keeps no mutable state across queries: whatever queries one
\* Orchestrator served before, a query starts from nothing, its strategy,
\* reference_links and relevant_docs come from its own documents, scores and
\* web result, and no step changes the thresholds, top_k or the loaded index.
C26_NoCrossQueryState ==
    /\ [](pipeline = "orchestrator" => QueryLocal)
    /\ [][pipeline = "orchestrator" =>
            /\ lower_threshold' = lower_threshold
            /\ upper_threshold' = upper_threshold
            /\ vectorstore = "loaded" => vectorstore' = "loaded"]_vars

\* the second query of one object returned with a strategy other than that
\* of the first, which had been answered from the knowledge base alone
C26_Witness ==
    /\ Returned("orchestrator") /\ entry_point = "session"
    /\ earlier = <<"kb_only">>
    /\ strategy = "web_only"
    /\ Len(documents) = 1
    /\ result.relevant_docs = <<>>

InUnitRange(score) == 0 <= score /\ score <= 10

\* C27 as stated: every RelevanceScore recorded by the evaluator and every
\* score reported in relevant_docs lies in [0, 1], whatever the service
\* returns for the continuous judgment.
C27_ScoresInUnitRange ==
    pipeline = "orchestrator" =>
        /\ \A k \in 1..Len(relevance_scores) : InUnitRange(relevance_scores[k].score)
        /\ pc = "returned" =>
              \A i \in 1..Len(result.relevant_docs) :
                  InUnitRange(result.relevant_docs[i].score)

\* C28: in CombinedRAG.run the best-of selection is never applied to an empty
\* collection: the hybrid branch is entered only with at least one
\* binary-relevant context, and the knowledge-base-only branch selects among
\* at least one graded response, whatever the scores and judgments were and
\* also when nothing was retrieved.
C28_SelectionNeverOnEmpty ==
    pipeline = "combined" =>
        /\ strategy \in {"hybrid", "kb_only"} => relevant_contexts # <<>>
        /\ (pc = "kb_only" /\ Len(responses) = Len(relevant_contexts)) => responses # <<>>
        /\ (pc = "returned" /\ strategy = "kb_only") => responses # <<>>
        /\ (strategy # "unset" /\ documents = <<>>) => strategy = "web_only"

\* three documents, only one judged relevant: the selection is about to be
\* made over the single graded response
C28_Witness ==
    /\ pipeline = "combined" /\ pc = "kb_only"
    /\ Len(documents) = 3
    /\ Len(relevant_contexts) = 1
    /\ Len(responses) = 1

\* the score calls of the log, in order
ScoreCalls == SelectSeq(calls, LAMBDA c : c.op = "score")

\* C29: in every QueryResult returned by Orchestrator.run after retrieval,
\* relevant_docs is empty exactly when the strategy was web_only and non-empty
\* exactly when it was hybrid or kb_only, and the scores are index-aligned with
\* the retrieved documents: one score per document, in the same order.
C29_RelevantDocsMatchStrategy ==
    (Returned("orchestrator") /\ retrieval_decision = "yes") =>
        /\ result.relevant_docs = <<>> <=> strategy = "web_only"
        /\ result.relevant_docs # <<>> <=> strategy \in {"hybrid", "kb_only"}
        /\ Len(relevance_scores) = Len(documents)
        /\ Len(ScoreCalls) = Len(documents)
        /\ \A k \in 1..Len(documents) : ScoreCalls[k].arg.doc = documents[k].content.id
        /\ \A i \in 1..Len(result.relevant_docs) :
              \E k \in 1..Len(documents) :
                  /\ result.relevant_docs[i].score = relevance_scores[k].score
                  /\ result.relevant_docs[i].content_preview = preview(documents[k])
                  /\ result.relevant_docs[i].url =
                        Get(documents[k].metadata, "url", "No URL available")

\* three documents scored 0.2, 0.3 and 0.5 with thresholds (0.3, 0.7): the
\* strategy is hybrid and the second and third documents are reported
C29_Witness ==
    /\ Returned("orchestrator") /\ strategy = "hybrid"
    /\ lower_threshold = 3
    /\ Len(documents) = 3
    /\ relevance_scores[1].score = 2 /\ relevance_scores[2].score = 3
    /\ relevance_scores[3].score = 5
    /\ Len(result.relevant_docs) = 2

\* the external calls of one run stay within their bounds
CallsBounded ==
    /\ CountOp("image") <= 1
    /\ CountOp("gate") <= 1 /\ CountOp("search") <= 1
    /\ CountOp("binary") = Len(relevance_scores)
    /\ CountOp("score") = Len(relevance_scores)
    /\ Len(relevance_scores) <= Len(documents) /\ Len(documents) <= top_k
    /\ \A op \in WebOps : CountOp(op) <= 1
    /\ CountOp("generate") <= 1
    /\ Len(calls) <= 2 * top_k + 8

\* C30: provided every external call returns, Orchestrator.run terminates with
\* a QueryResult after a bounded number of external calls: one gate call, at
\* most one similarity search, two evaluation calls per retrieved document, at
\* most one web-search run and exactly one generation call, none repeated.
C30_RunTerminatesBounded ==
    /\ [](pipeline = "orchestrator" => CallsBounded)
    /\ (pipeline = "orchestrator" /\ pc = "start") ~>
          (/\ pc = "returned"
           /\ result.final_response = "answer"
           /\ CountOp("gate") = 1 /\ CountOp("generate") = 1
           /\ CountOp("binary") = Len(documents) /\ CountOp("score") = Len(documents))

\* the longest run: image analysis, gate, search, three documents evaluated,
\* web search and generation, fourteen calls with the index load
C30_Witness ==
    /\ Returned("orchestrator")
    /\ Len(documents) = top_k
    /\ Len(calls) = 2 * top_k + 8
    /\ CountOp("generate") = 1

====
